---- MODULE Spec2Model ----
(***************************************************************************)
(* A model of znc-logviewer (src/logviewer.py): Colorizer.chunkify, the    *)
(* chunk walk of render_loglines, grep, render_search, pretty_number and   *)
(* get_safe_path.  Each part of the program has its own specification      *)
(* over its own group of variables; the other groups stay idle.            *)
(*                                                                         *)
(* Text is a sequence of one-character strings, so that slicing, stripping *)
(* and prefix tests are computed character by character.                   *)
(***************************************************************************)
EXTENDS Integers, Sequences, FiniteSets, TLC

VARIABLES
    \* Colorizer.chunkify(line, spans)
    line,       \* the line handed to chunkify
    spans,      \* the labeled spans handed to chunkify: <<[cls, start, end], ...>>
    keyidx,     \* chunkify's sorted list of breakpoints
    chunks,     \* the returned chunks: <<[cls, text], ...>>
    cpc,        \* "call" before chunkify has run, "chunked" after
    \* render_loglines over one line tuple (i, line, highlight, extraspan)
    rawline,    \* the line as read from the file
    regex,      \* the search pattern, a literal
    simple,     \* render_loglines' simple flag: TRUE from render_log
    highlight,  \* the tuple's highlight flag
    extraspan,  \* the tuple's match spans
    timestamp,  \* the three buffers of the chunk walk
    nickname,
    rest,
    in_other,   \* the latch of the chunk walk
    ci,         \* index of the next chunk of the walk
    rpc,        \* "tuple", "line", "walk", "done"
    \* grep(f, regex, startline, context)
    f,          \* the file: f[i + 1] is whether regex.search finds a match in line i
    context,    \* the context size
    startline,  \* the start-line hint; 0 stands for None
    gi,         \* the index of the next line of enumerate(f.readlines())
    context_pre,
    found,
    end_context_left,
    yielded,    \* the blocks yielded so far, in order
    gpc,        \* "loop", "done"
    \* get_safe_path(sock, dir)
    base,       \* os.path.abspath(self.get_log_dir(sock))
    path,       \* the request's path parameter
    dir,        \* whether a directory is asked for
    fullpath,   \* the returned path; <<>> stands for None
    rel,        \* the returned relative path; <<>> for None as for ''
    status,     \* "none", "ok", or the text of the 404 error page
    ppc,        \* "call", "done"
    \* render_search(sock, tmpl)
    regexsrc,   \* the request's re parameter
    entries,    \* what walk_safe_path yields: <<[typ, nblocks], ...>>
    ei,         \* index of the walk's current entry
    opened,     \* the entries whose file has been opened
    taken,      \* per entry, the blocks taken from grep over its file
    results,
    error,      \* tmpl['error']; "" when not set
    ret,        \* "none", "True", "False"
    spc,        \* "path", "regex", "walk", "file", "done"
    \* pretty_number(n, unit, log2)
    n,
    unit,
    log2,
    s,          \* the returned string
    npc         \* "call", "done"

chunkVars == <<line, spans, keyidx, chunks, cpc>>

renderVars ==
    <<rawline, regex, simple, highlight, extraspan, timestamp, nickname, rest, in_other, ci, rpc>>

grepVars ==
    <<f, context, startline, gi, context_pre, found, end_context_left, yielded, gpc>>

pathVars == <<base, path, dir, fullpath, rel, status, ppc>>

searchVars == <<regexsrc, entries, ei, opened, taken, results, error, ret, spc>>

prettyVars == <<n, unit, log2, s, npc>>

vars == <<chunkVars, renderVars, grepVars, pathVars, searchVars, prettyVars>>

\* what the actions of one part leave alone
chunkOthers == <<renderVars, grepVars, pathVars, searchVars, prettyVars>>

renderOthers == <<grepVars, pathVars, searchVars, prettyVars>>

grepOthers == <<chunkVars, renderVars, pathVars, searchVars, prettyVars>>

pathOthers == <<chunkVars, renderVars, grepVars, searchVars, prettyVars>>

searchOthers == <<chunkVars, renderVars, grepVars, prettyVars>>

prettyOthers == <<chunkVars, renderVars, grepVars, pathVars, searchVars>>

(***************************************************************************)
(* Helpers on integers and sequences.                                      *)
(***************************************************************************)
Min2(a, b) == IF a <= b THEN a ELSE b

Max2(a, b) == IF a >= b THEN a ELSE b

SetMin(S) == CHOOSE m \in S : \A x \in S : m <= x

SetMax(S) == CHOOSE m \in S : \A x \in S : m >= x

\* list(sorted(S)) for a finite set of integers
RECURSIVE Sorted(_)
Sorted(S) == IF S = {} THEN <<>> ELSE <<SetMin(S)>> \o Sorted(S \ {SetMin(S)})

\* all sequences over S of length at most len
SeqsUpTo(S, len) == UNION {[1..k -> S] : k \in 0..len}

\* ''.join(texts)
RECURSIVE Concat(_)
Concat(ss) == IF ss = <<>> THEN <<>> ELSE Head(ss) \o Concat(Tail(ss))

Range(sq) == {sq[k] : k \in DOMAIN sq}

(***************************************************************************)
(* Colorizer.chunkify                                                      *)
(***************************************************************************)
\* Python's line[start:end] for 0 <= start: the slice is clipped to the line
Slice(sq, start, end) ==
    [j \in 1..Max2(0, Min2(end, Len(sq)) - Min2(start, Len(sq))) |-> sq[Min2(start, Len(sq)) + j]]

\* lines 66-71: 0, len(line) and both ends of every span that has no negative end
KeyIdx(ln, sp) ==
    {0, Len(ln)}
        \cup {sp[k].start : k \in {j \in DOMAIN sp : ~(sp[j].start < 0 \/ sp[j].end < 0)}}
        \cup {sp[k].end : k \in {j \in DOMAIN sp : ~(sp[j].start < 0 \/ sp[j].end < 0)}}

\* a plausible slip: only the start of the span is compared
ContainsStartOnly(clsstart, clsend, start, end) == clsstart <= start

\* line 79: the span [clsstart, clsend) holds the chunk [start, end)
Contains(clsstart, clsend, start, end) == clsstart <= start /\ end <= clsend

\* lines 77-80: the labels, in span order, of the spans that hold the chunk
ChunkCls(sp, start, end) ==
    LET Holds(sq) == Contains(sq.start, sq.end, start, end)
        kept == SelectSeq(sp, Holds)
    IN [k \in DOMAIN kept |-> kept[k].cls]

\* lines 72-83
ChunksOf(ln, sp, kidx) ==
    [i \in 1..(Len(kidx) - 1) |->
        [cls |-> ChunkCls(sp, kidx[i], kidx[i + 1]),
         text |-> Slice(ln, kidx[i], kidx[i + 1])]]

(***************************************************************************)
(* Inputs of the chunkify specification.                                   *)
(***************************************************************************)
MaxLen == 2

MaxSpans == 2

\* how far past the end of the line a span may reach
PastEnd == 1

Alphabet == <<"a", "b", "c", "d", "e", "f">>

ChunkLines == {SubSeq(Alphabet, 1, len) : len \in 0..MaxLen}

ChunkLabels == {"nickname", "searchword"}

\* what re's span(i) can return, and ends past the line: (-1, -1) for a group
\* that did not take part in the match, else 0 <= start <= end
SpanRanges(len) ==
    {<<-1, -1>>} \cup {<<sq, e>> \in (0..(len + PastEnd)) \X (0..(len + PastEnd)) : sq <= e}

SpansFor(len) ==
    SeqsUpTo({[cls |-> c, start |-> r[1], end |-> r[2]] :
                  c \in ChunkLabels, r \in SpanRanges(len)}, MaxSpans)

\* the variables of render_loglines, unused
RenderIdle ==
    /\ rawline = <<>>
    /\ regex = <<>>
    /\ simple = TRUE
    /\ highlight = FALSE
    /\ extraspan = <<>>
    /\ timestamp = <<>>
    /\ nickname = <<>>
    /\ rest = <<>>
    /\ in_other = FALSE
    /\ ci = 0
    /\ rpc = "idle"

\* the variables of grep, unused
GrepIdle ==
    /\ f = <<>>
    /\ context = 0
    /\ startline = 0
    /\ gi = 0
    /\ context_pre = <<>>
    /\ found = <<>>
    /\ end_context_left = 0
    /\ yielded = <<>>
    /\ gpc = "idle"

\* the variables of get_safe_path, unused
PathIdle ==
    /\ base = <<>>
    /\ path = <<>>
    /\ dir = FALSE
    /\ fullpath = <<>>
    /\ rel = <<>>
    /\ status = "none"
    /\ ppc = "idle"

\* the variables of render_search, unused
SearchIdle ==
    /\ regexsrc = ""
    /\ entries = <<>>
    /\ ei = 0
    /\ opened = {}
    /\ taken = <<>>
    /\ results = 0
    /\ error = ""
    /\ ret = "none"
    /\ spc = "idle"

\* the variables of pretty_number, unused
PrettyIdle ==
    /\ n = 0
    /\ unit = ""
    /\ log2 = FALSE
    /\ s = ""
    /\ npc = "idle"

ChunkInit ==
    /\ line \in ChunkLines
    /\ spans \in SpansFor(Len(line))
    /\ keyidx = <<>>
    /\ chunks = <<>>
    /\ cpc = "call"
    /\ RenderIdle
    /\ GrepIdle
    /\ PathIdle
    /\ SearchIdle
    /\ PrettyIdle

\* Colorizer.chunkify, lines 65-83
Chunkify ==
    /\ cpc = "call"
    /\ keyidx' = Sorted(KeyIdx(line, spans))
    /\ chunks' = ChunksOf(line, spans, Sorted(KeyIdx(line, spans)))
    /\ cpc' = "chunked"
    /\ UNCHANGED <<line, spans>>
    /\ UNCHANGED chunkOthers

SpecChunk == ChunkInit /\ [][Chunkify]_vars

(***************************************************************************)
(* Claims about chunkify.                                                  *)
(***************************************************************************)
ChunkStart(i) == keyidx[i]

ChunkEnd(i) == keyidx[i + 1]

\* C1: the chunks are consecutive half-open intervals from 0 to len(line), each
\* ending where the next starts, sharing no position, and the concatenation of
\* their texts is the line, for every span set (spans past the end included).
C1_Partition ==
    cpc = "chunked" =>
        /\ Len(chunks) = Len(keyidx) - 1
        /\ Len(keyidx) >= 1
        /\ ChunkStart(1) = 0
        /\ keyidx[Len(keyidx)] = Len(line)
        /\ \A i \in DOMAIN chunks :
              /\ ChunkStart(i) < ChunkEnd(i)
              /\ chunks[i].text = SubSeq(line, ChunkStart(i) + 1, ChunkEnd(i))
        /\ Concat([i \in DOMAIN chunks |-> chunks[i].text]) = line

\* what does hold of chunkify: the intervals run from 0 to the largest
\* breakpoint, and the texts, clipped to the line, concatenate to the line
C1_PartitionToLastBreakpoint ==
    cpc = "chunked" =>
        /\ Len(chunks) = Len(keyidx) - 1
        /\ Len(keyidx) >= 1
        /\ ChunkStart(1) = 0
        /\ keyidx[Len(keyidx)] = SetMax(KeyIdx(line, spans))
        /\ \A i \in DOMAIN chunks :
              /\ ChunkStart(i) < ChunkEnd(i)
              /\ chunks[i].text = SubSeq(line, ChunkStart(i) + 1, Min2(ChunkEnd(i), Len(line)))
        /\ Concat([i \in DOMAIN chunks |-> chunks[i].text]) = line

\* C7: the label set of each chunk [a,b) is exactly the labels of the spans
\* with start <= a and b <= end; every label of a chunk comes from a matched,
\* non-empty span holding it, so negative and zero-length spans label nothing.
C7_ChunkLabels ==
    cpc = "chunked" =>
        \A i \in DOMAIN chunks :
            /\ Range(chunks[i].cls) =
                  {spans[k].cls : k \in {j \in DOMAIN spans :
                        spans[j].start <= ChunkStart(i) /\ ChunkEnd(i) <= spans[j].end}}
            /\ \A c \in Range(chunks[i].cls) :
                  \E k \in DOMAIN spans :
                      /\ spans[k].cls = c
                      /\ 0 <= spans[k].start
                      /\ spans[k].start < spans[k].end
                      /\ spans[k].start <= ChunkStart(i)
                      /\ ChunkEnd(i) <= spans[k].end

\* two overlapping spans with different labels both label one chunk, next to
\* an unlabeled chunk
C7_Witness ==
    /\ cpc = "chunked"
    /\ \E i \in DOMAIN chunks : Range(chunks[i].cls) = ChunkLabels
    /\ \E i \in DOMAIN chunks : chunks[i].cls = <<>>
    /\ \E k \in DOMAIN spans : spans[k].start < spans[k].end

(***************************************************************************)
(* render_loglines: one line tuple, from render_log (simple) or from a     *)
(* block that grep yielded, through strip, colorize, chunkify and the      *)
(* chunk walk.                                                             *)
(***************************************************************************)
Whitespace == {" ", "\n"}

\* str.strip()
RECURSIVE LStrip(_)
LStrip(sq) == IF sq # <<>> /\ Head(sq) \in Whitespace THEN LStrip(Tail(sq)) ELSE sq

RECURSIVE RStrip(_)
RStrip(sq) ==
    IF sq # <<>> /\ sq[Len(sq)] \in Whitespace THEN RStrip(SubSeq(sq, 1, Len(sq) - 1)) ELSE sq

Strip(sq) == RStrip(LStrip(sq))

\* regex.finditer(line) for a literal pattern: the leftmost occurrences, none
\* overlapping another, as ('searchword', m.span(0))
RECURSIVE FindFrom(_, _, _)
FindFrom(p, sq, pos) ==
    IF pos + Len(p) > Len(sq) THEN <<>>
    ELSE IF SubSeq(sq, pos + 1, pos + Len(p)) = p
         THEN <<[cls |-> "searchword", start |-> pos, end |-> pos + Len(p)]>>
                  \o FindFrom(p, sq, pos + Len(p))
         ELSE FindFrom(p, sq, pos + 1)

\* line 234
FindIter(p, sq) == FindFrom(p, sq, 0)

\* line 224: regex.search(line)
Search(p, sq) == FindIter(p, sq) # <<>>

Sp(c, sq, e) == [cls |-> c, start |-> sq, end |-> e]

\* Lines with the structure the matchers look for, and what colorize returns
\* for each (the matchers of lines 26-50 evaluated on it).
SampleLines ==
    { <<"1", " ", "<", "a", ">">>,
      <<"1", " ", "<", "a", ">", " ", "b", ":", " ", "a">>,
      <<"<", "a", "b", ">", " ", "a">>,
      <<"1", " ", "*", " ", "a", " ", "b">>,
      <<"*", "*", "*", " ", "a">>,
      <<"1", " ", "a">>,
      <<"*", "*", "*", "*", "a", "*", "*", "*", "*">> }

\* Colorizer.colorize: the labeled group spans of the first matcher that
\* matches.  A line of letters and blanks only is matched by the catch-all
\* alone, whose timestamp group takes no part in the match.
Colorize(ln) ==
    CASE ln = <<"*", "*", "*", "*", "a", "*", "*", "*", "*">> ->
            <<Sp("muted", 0, 9)>>
      [] ln = <<"1", " ", "<", "a", ">">> ->
            <<Sp("timestamp", 0, 2), Sp("nickname-bracket", 2, 5), Sp("nickname", 3, 4)>>
      [] ln = <<"1", " ", "<", "a", ">", " ", "b", ":", " ", "a">> ->
            <<Sp("timestamp", 0, 2), Sp("nickname-bracket", 2, 6), Sp("nickname", 3, 4),
              Sp("prefix", 6, 7)>>
      [] ln = <<"<", "a", "b", ">", " ", "a">> ->
            <<Sp("timestamp", -1, -1), Sp("nickname-bracket", 0, 5), Sp("nickname", 1, 3),
              Sp("prefix", -1, -1)>>
      [] ln = <<"1", " ", "*", " ", "a", " ", "b">> ->
            <<Sp("timestamp", 0, 2), Sp("keyword", 2, 4), Sp("nickname", 4, 6)>>
      [] ln = <<"*", "*", "*", " ", "a">> ->
            <<Sp("timestamp", -1, -1), Sp("keyword", 0, 4), Sp("muted", 4, 5)>>
      [] ln = <<"1", " ", "a">> ->
            <<Sp("timestamp", 0, 2)>>
      [] OTHER ->
            <<Sp("timestamp", -1, -1)>>

\* line 271: hash(...) % 10
NumColors == 10

ColorLabel(k) ==
    <<"nickname-0", "nickname-1", "nickname-2", "nickname-3", "nickname-4",
      "nickname-5", "nickname-6", "nickname-7", "nickname-8", "nickname-9">>[k + 1]

\* line 270
WantsColor(cls) == "nickname" \in Range(cls) \/ "prefix" \in Range(cls)

\* a plausible slip: the mention prefix is bucketed like the nickname, as it
\* is colored like the nickname
BucketPrefixAsNickname(cls, latch) ==
    IF latch THEN "rest"
    ELSE IF {"nickname-bracket", "keyword", "nickname", "prefix"} \cap Range(cls) # {}
         THEN "nickname"
    ELSE IF "timestamp" \in Range(cls) THEN "timestamp"
    ELSE "rest"

\* lines 273-282: the buffer a chunk with labels cls goes to
Bucket(cls, latch) ==
    IF latch THEN "rest"
    ELSE IF "nickname-bracket" \in Range(cls) \/ "keyword" \in Range(cls)
               \/ "nickname" \in Range(cls)
         THEN "nickname"
    ELSE IF "timestamp" \in Range(cls) THEN "timestamp"
    ELSE "rest"

(***************************************************************************)
(* Inputs of the render specification.                                     *)
(***************************************************************************)
MaxRaw == 3

MaxPat == 3

PlainChars == {" ", "a", "b"}

NonEmptySeqsUpTo(S, len) == SeqsUpTo(S, len) \ {<<>>}

\* lines as f.readlines() returns them: with the newline, except perhaps the
\* last line of a file
RawLines ==
    {body \o nl : body \in SeqsUpTo(PlainChars, MaxRaw), nl \in {<<>>, <<"\n">>}}
        \cup {lead \o body \o nl :
                 lead \in {<<>>, <<" ">>}, body \in SampleLines, nl \in {<<>>, <<"\n">>}}

\* literal patterns that begin and end with a letter; none matches the empty
\* string
Patterns ==
    {p \in NonEmptySeqsUpTo(PlainChars, MaxPat) :
        p[1] \notin Whitespace /\ p[Len(p)] \notin Whitespace}

ChunkIdle ==
    /\ line = <<>>
    /\ spans = <<>>
    /\ keyidx = <<>>
    /\ chunks = <<>>
    /\ cpc = "idle"

RenderInit ==
    /\ rawline \in RawLines
    /\ regex \in Patterns
    /\ simple \in BOOLEAN
    /\ highlight = FALSE
    /\ extraspan = <<>>
    /\ timestamp = <<>>
    /\ nickname = <<>>
    /\ rest = <<>>
    /\ in_other = FALSE
    /\ ci = 0
    /\ rpc = "tuple"
    /\ ChunkIdle
    /\ GrepIdle
    /\ PathIdle
    /\ SearchIdle
    /\ PrettyIdle

\* line 254: render_log passes (i, line, False, [])
LogLine ==
    /\ rpc = "tuple"
    /\ simple
    /\ highlight' = FALSE
    /\ extraspan' = <<>>
    /\ rpc' = "line"
    /\ UNCHANGED <<rawline, regex, simple, timestamp, nickname, rest, in_other, ci>>
    /\ UNCHANGED <<chunkVars, renderOthers>>

\* lines 220, 227: a context line of a block is (i, line, False, [])
GrepContextLine ==
    /\ rpc = "tuple"
    /\ ~simple
    /\ ~Search(regex, rawline)
    /\ highlight' = FALSE
    /\ extraspan' = <<>>
    /\ rpc' = "line"
    /\ UNCHANGED <<rawline, regex, simple, timestamp, nickname, rest, in_other, ci>>
    /\ UNCHANGED <<chunkVars, renderOthers>>

\* lines 224, 234-239: a matching line is (i, line, True, spans), the spans
\* being offsets into the line as read
GrepMatchLine ==
    /\ rpc = "tuple"
    /\ ~simple
    /\ Search(regex, rawline)
    /\ highlight' = TRUE
    /\ extraspan' = FindIter(regex, rawline)
    /\ rpc' = "line"
    /\ UNCHANGED <<rawline, regex, simple, timestamp, nickname, rest, in_other, ci>>
    /\ UNCHANGED <<chunkVars, renderOthers>>

\* lines 258-266: strip, colorize, chunkify, empty buffers
RenderLine ==
    /\ rpc = "line"
    /\ line' = Strip(rawline)
    /\ spans' = Colorize(line') \o extraspan
    /\ keyidx' = Sorted(KeyIdx(line', spans'))
    /\ chunks' = ChunksOf(line', spans', keyidx')
    /\ cpc' = "chunked"
    /\ timestamp' = <<>>
    /\ nickname' = <<>>
    /\ rest' = <<>>
    /\ in_other' = FALSE
    /\ ci' = 1
    /\ rpc' = "walk"
    /\ UNCHANGED <<rawline, regex, simple, highlight, extraspan>>
    /\ UNCHANGED renderOthers

\* lines 269-282: one chunk of the walk.  hash() of a str differs from one
\* process to the next, so the color is any of the NumColors.
RenderChunk ==
    /\ rpc = "walk"
    /\ ci <= Len(chunks)
    /\ \E namecolor \in 0..(NumColors - 1) :
          LET cls == IF WantsColor(chunks[ci].cls)
                     THEN Append(chunks[ci].cls, ColorLabel(namecolor))
                     ELSE chunks[ci].cls
              chunk == [cls |-> cls, text |-> chunks[ci].text]
              to == Bucket(cls, in_other)
          IN /\ chunks' = [chunks EXCEPT ![ci] = chunk]
             /\ timestamp' = IF to = "timestamp" THEN Append(timestamp, chunk) ELSE timestamp
             /\ nickname' = IF to = "nickname" THEN Append(nickname, chunk) ELSE nickname
             /\ rest' = IF to = "rest" THEN Append(rest, chunk) ELSE rest
             /\ in_other' = (in_other \/ to = "rest")
    /\ ci' = ci + 1
    /\ UNCHANGED <<rawline, regex, simple, highlight, extraspan, rpc>>
    /\ UNCHANGED <<line, spans, keyidx, cpc>>
    /\ UNCHANGED renderOthers

\* lines 283-286: the row's fields are made from the three buffers
RenderRow ==
    /\ rpc = "walk"
    /\ ci > Len(chunks)
    /\ rpc' = "done"
    /\ UNCHANGED <<rawline, regex, simple, highlight, extraspan, timestamp, nickname, rest,
                   in_other, ci>>
    /\ UNCHANGED <<chunkVars, renderOthers>>

RenderNext ==
    \/ LogLine
    \/ GrepContextLine
    \/ GrepMatchLine
    \/ RenderLine
    \/ RenderChunk
    \/ RenderRow

SpecRender == RenderInit /\ [][RenderNext]_vars

(***************************************************************************)
(* Claims about render_loglines.                                           *)
(***************************************************************************)
IsNick(c) ==
    {"nickname-bracket", "keyword", "nickname"} \cap Range(c.cls) # {}

IsTs(c) == ~IsNick(c) /\ "timestamp" \in Range(c.cls)

\* the first walked chunk that is neither of the nickname nor of the
\* timestamp kind; ci when there is none
FirstOther ==
    LET others == {i \in 1..(ci - 1) : ~IsNick(chunks[i]) /\ ~IsTs(chunks[i])}
    IN IF others = {} THEN ci ELSE SetMin(others)

\* C8: each walked chunk is in exactly one buffer, in order; up to the first
\* chunk of neither kind, nickname-bracket/keyword/nickname chunks are in the
\* nickname buffer and the other timestamp chunks in the timestamp buffer; from
\* that chunk on the latch is set and every chunk is in rest, whatever its
\* labels: rest is a suffix of the walked chunks.
C8_Buckets ==
    rpc \in {"walk", "done"} =>
        /\ in_other = (FirstOther < ci)
        /\ rest = SubSeq(chunks, FirstOther, ci - 1)
        /\ nickname = SelectSeq(SubSeq(chunks, 1, FirstOther - 1), IsNick)
        /\ timestamp = SelectSeq(SubSeq(chunks, 1, FirstOther - 1), IsTs)
        /\ Len(timestamp) + Len(nickname) + Len(rest) = ci - 1

\* the walk of a line is over, all three buffers are filled, and a labeled
\* chunk went to rest after the latch was set
C8_Witness ==
    /\ rpc = "done"
    /\ timestamp # <<>>
    /\ nickname # <<>>
    /\ Len(rest) >= 2
    /\ \E k \in DOMAIN rest : k > 1 /\ rest[k].cls # <<>>

\* the text of the chunks labeled searchword, in order
HighlightedText ==
    Concat([i \in DOMAIN chunks |->
               IF "searchword" \in Range(chunks[i].cls) THEN chunks[i].text ELSE <<>>])

\* the pattern's occurrences in the line of the file, in order
OccurrenceText ==
    Concat([k \in DOMAIN extraspan |-> SubSeq(rawline, extraspan[k].start + 1, extraspan[k].end)])

\* C10: for a matching line that render_loglines has rendered, the characters
\* in the chunks labeled searchword are the characters of the pattern's
\* occurrences in the line, leading or trailing whitespace or not.
C10_HighlightIsMatch ==
    (rpc = "done" /\ highlight) => HighlightedText = OccurrenceText

\* the same, restricted to lines that strip() leaves alone at the front and
\* to occurrences that end inside the stripped line
C10_HighlightIsMatchUnshifted ==
    (rpc = "done" /\ highlight /\ LStrip(rawline) = rawline
        /\ \A k \in DOMAIN extraspan : extraspan[k].end <= Len(line))
        => HighlightedText = OccurrenceText

(***************************************************************************)
(* grep: the loop over enumerate(f.readlines()), one action per line, and  *)
(* the flush at the end of the file.  A tuple (i, line, highlight, spans)  *)
(* is [i, hl]: the line and the spans follow from i.                       *)
(***************************************************************************)
\* a plausible slip: one line too many is kept
LastNOffByOne(sq, len) == SubSeq(sq, Max2(1, Len(sq) - len), Len(sq))

\* Python's s[-n:] for n >= 0; s[-0:] is all of s
LastN(sq, len) == IF len = 0 THEN sq ELSE SubSeq(sq, Max2(1, Len(sq) - len + 1), Len(sq))

\* lines 219-220
PushContext(pre, c, i) == Append(LastN(pre, c), [i |-> i, hl |-> FALSE])

MaxLines == 9

MaxContext == 3

MaxStart == 2

GrepInit ==
    /\ f \in SeqsUpTo(BOOLEAN, MaxLines)
    /\ context \in 1..MaxContext
    /\ startline \in 0..MaxStart
    /\ gi = 0
    /\ context_pre = <<>>
    /\ found = <<>>
    /\ end_context_left = 0
    /\ yielded = <<>>
    /\ gpc = "loop"
    /\ ChunkIdle
    /\ RenderIdle
    /\ PathIdle
    /\ SearchIdle
    /\ PrettyIdle

\* lines 219-222: a line before the start line only feeds context_pre
GrepSkip ==
    /\ gpc = "loop"
    /\ gi < Len(f)
    /\ startline # 0 /\ gi < startline - 1
    /\ context_pre' = PushContext(context_pre, context, gi)
    /\ gi' = gi + 1
    /\ UNCHANGED <<f, context, startline, found, end_context_left, yielded, gpc>>
    /\ UNCHANGED grepOthers

\* lines 219-232: a line without a match
GrepNoMatch ==
    /\ gpc = "loop"
    /\ gi < Len(f)
    /\ ~(startline # 0 /\ gi < startline - 1)
    /\ ~f[gi + 1]
    /\ context_pre' = PushContext(context_pre, context, gi)
    /\ LET found1 == IF end_context_left > 0
                     THEN Append(found, [i |-> gi, hl |-> FALSE])
                     ELSE found
           left1 == IF end_context_left > 0 THEN end_context_left - 1 ELSE end_context_left
       IN /\ end_context_left' = left1
          /\ IF found1 # <<>> /\ left1 = 0
             THEN /\ yielded' = Append(yielded, found1)
                  /\ found' = <<>>
             ELSE /\ yielded' = yielded
                  /\ found' = found1
    /\ gi' = gi + 1
    /\ UNCHANGED <<f, context, startline, gpc>>
    /\ UNCHANGED grepOthers

\* lines 219-224, 234-240: a line with a match
GrepMatch ==
    /\ gpc = "loop"
    /\ gi < Len(f)
    /\ ~(startline # 0 /\ gi < startline - 1)
    /\ f[gi + 1]
    /\ context_pre' = PushContext(context_pre, context, gi)
    /\ found' = IF found # <<>>
                THEN Append(found, [i |-> gi, hl |-> TRUE])
                ELSE [context_pre' EXCEPT ![Len(context_pre')] = [i |-> gi, hl |-> TRUE]]
    /\ end_context_left' = context
    /\ gi' = gi + 1
    /\ UNCHANGED <<f, context, startline, yielded, gpc>>
    /\ UNCHANGED grepOthers

\* lines 241-242: the flush at the end of the file
GrepEnd ==
    /\ gpc = "loop"
    /\ gi = Len(f)
    /\ yielded' = IF found # <<>> THEN Append(yielded, found) ELSE yielded
    /\ gpc' = "done"
    /\ UNCHANGED <<f, context, startline, gi, context_pre, found, end_context_left>>
    /\ UNCHANGED grepOthers

GrepNext ==
    \/ GrepSkip
    \/ GrepNoMatch
    \/ GrepMatch
    \/ GrepEnd

SpecGrep == GrepInit /\ [][GrepNext]_vars

(***************************************************************************)
(* Claims about grep.                                                      *)
(***************************************************************************)
\* the lines of the file that grep tests and finds matching
MatchingLines ==
    {i \in 0..(Len(f) - 1) : f[i + 1] /\ ~(startline # 0 /\ i < startline - 1)}

BlockLines(b) == {b[k].i : k \in DOMAIN b}

BlockMatches(b) == {b[k].i : k \in {j \in DOMAIN b : b[j].hl}}

\* C3: two matching lines at most 2 * context apart (their context windows
\* overlap) are emitted in one block, and no line is in two emitted blocks.
C3_OverlappingWindowsMerged ==
    gpc = "done" =>
        /\ \A i \in MatchingLines : \A j \in MatchingLines :
              (i < j /\ j - i <= 2 * context) =>
                  \E k \in DOMAIN yielded : {i, j} \subseteq BlockLines(yielded[k])
        /\ \A k \in DOMAIN yielded : \A m \in DOMAIN yielded :
              k # m => BlockLines(yielded[k]) \cap BlockLines(yielded[m]) = {}

\* C4: without a start line and with context >= 1, every emitted block is a
\* run of consecutive line indices, from min(context, first match) lines before
\* its first matching line to context lines after its last matching line or to
\* the last line of the file; its flags are the regex's verdicts; and two
\* matching lines at most context apart are in one block.
C4_BlockShape ==
    (startline = 0 /\ context >= 1) =>
        /\ \A k \in DOMAIN yielded :
              LET b == yielded[k]
              IN /\ b # <<>>
                 /\ \A j \in 1..(Len(b) - 1) : b[j + 1].i = b[j].i + 1
                 /\ \A j \in DOMAIN b : b[j].hl = f[b[j].i + 1]
                 /\ BlockMatches(b) # {}
                 /\ b[1].i = SetMin(BlockMatches(b)) - Min2(context, SetMin(BlockMatches(b)))
                 /\ b[Len(b)].i = Min2(SetMax(BlockMatches(b)) + context, Len(f) - 1)
        /\ gpc = "done" =>
              \A i \in MatchingLines : \A j \in MatchingLines :
                  (i < j /\ j - i <= context) =>
                      \E k \in DOMAIN yielded : {i, j} \subseteq BlockLines(yielded[k])

\* two matches 2 lines apart with context 3, in one block from 3 lines before
\* the first to 3 lines after the second
C4_Witness ==
    /\ gpc = "done"
    /\ startline = 0
    /\ context = 3
    /\ \E k \in DOMAIN yielded :
          /\ BlockMatches(yielded[k]) = {3, 5}
          /\ yielded[k][1].i = 0
          /\ yielded[k][Len(yielded[k])].i = 8
          /\ Len(yielded[k]) = 9

(***************************************************************************)
(* get_safe_path, with os.path.join, abspath, relpath, isdir and isfile    *)
(* (posixpath) computed on character sequences.                            *)
(***************************************************************************)
Slash == "/"

\* str.startswith
StartsWith(str, prefix) ==
    Len(prefix) <= Len(str) /\ SubSeq(str, 1, Len(prefix)) = prefix

\* str.split('/')
RECURSIVE SplitFrom(_, _, _)
SplitFrom(str, pos, cur) ==
    IF pos > Len(str) THEN <<cur>>
    ELSE IF str[pos] = Slash THEN <<cur>> \o SplitFrom(str, pos + 1, <<>>)
    ELSE SplitFrom(str, pos + 1, Append(cur, str[pos]))

Split(str) == SplitFrom(str, 1, <<>>)

\* '/'.join(comps)
RECURSIVE JoinComps(_)
JoinComps(comps) ==
    IF comps = <<>> THEN <<>>
    ELSE IF Len(comps) = 1 THEN comps[1]
    ELSE comps[1] \o <<Slash>> \o JoinComps(Tail(comps))

\* posixpath.join(a, b)
OsJoin(a, b) ==
    IF StartsWith(b, <<Slash>>) THEN b
    ELSE IF a = <<>> \/ a[Len(a)] = Slash THEN a \o b
    ELSE a \o <<Slash>> \o b

DotDot == <<".", ".">>

\* posixpath.normpath's loop over the components
RECURSIVE NormComps(_, _, _)
NormComps(comps, new, rooted) ==
    IF comps = <<>> THEN new
    ELSE LET comp == Head(comps)
         IN IF comp = <<>> \/ comp = <<".">> THEN NormComps(Tail(comps), new, rooted)
            ELSE IF comp # DotDot \/ (~rooted /\ new = <<>>)
                       \/ (new # <<>> /\ new[Len(new)] = DotDot)
                 THEN NormComps(Tail(comps), Append(new, comp), rooted)
            ELSE IF new # <<>>
                 THEN NormComps(Tail(comps), SubSeq(new, 1, Len(new) - 1), rooted)
            ELSE NormComps(Tail(comps), new, rooted)

\* posixpath.normpath: exactly two leading slashes are kept
InitialSlashes(str) ==
    IF ~StartsWith(str, <<Slash>>) THEN 0
    ELSE IF StartsWith(str, <<Slash, Slash>>) /\ ~StartsWith(str, <<Slash, Slash, Slash>>) THEN 2
    ELSE 1

Normpath(str) ==
    IF str = <<>> THEN <<".">>
    ELSE LET slashes == InitialSlashes(str)
             joined == [k \in 1..slashes |-> Slash]
                           \o JoinComps(NormComps(Split(str), <<>>, slashes > 0))
         IN IF joined = <<>> THEN <<".">> ELSE joined

\* posixpath.abspath of a path that is absolute already
Abspath(str) == Normpath(str)

NonEmptyComps(str) == SelectSeq(Split(str), LAMBDA c : c # <<>>)

RECURSIVE CommonLen(_, _)
CommonLen(a, b) ==
    IF a = <<>> \/ b = <<>> \/ Head(a) # Head(b) THEN 0 ELSE 1 + CommonLen(Tail(a), Tail(b))

\* posixpath.relpath(p, start), both absolute
OsRelpath(p, start) ==
    LET start_list == NonEmptyComps(Abspath(start))
        path_list == NonEmptyComps(Abspath(p))
        i == CommonLen(start_list, path_list)
        rel_list == [k \in 1..(Len(start_list) - i) |-> DotDot]
                        \o SubSeq(path_list, i + 1, Len(path_list))
    IN IF rel_list = <<>> THEN <<".">> ELSE JoinComps(rel_list)

\* logviewer.relpath, lines 356-360
Relpath(p, b) == IF OsRelpath(p, b) = <<".">> THEN <<>> ELSE OsRelpath(p, b)

\* The log tree: the logs of user a under /l/a, those of user ab beside them.
FsDirs ==
    { <<"/">>, <<"/", "l">>, <<"/", "l", "/", "a">>, <<"/", "l", "/", "a", "/", "s">>,
      <<"/", "l", "/", "a", "b">> }

FsFiles ==
    { <<"/", "l", "/", "a", "/", "f">>, <<"/", "l", "/", "a", "/", "s", "/", "f">>,
      <<"/", "l", "/", "a", "b", "/", "f">>, <<"/", "f">> }

\* the kernel reads any run of slashes as one
Resolved(p) == <<Slash>> \o JoinComps(NonEmptyComps(p))

IsDir(p) == Resolved(p) \in FsDirs

IsFile(p) == Resolved(p) \in FsFiles

\* line 343
Joined(b, p) == Abspath(OsJoin(b, p))

\* lines 343-354: what get_safe_path returns, and the error page it prints
GetSafePath(b, p, d) ==
    LET full == Joined(b, p)
    IN IF ~StartsWith(full, b)
       THEN [fullpath |-> <<>>, rel |-> <<>>, status |-> "bad path"]
       ELSE IF d /\ ~IsDir(full)
       THEN [fullpath |-> <<>>, rel |-> <<>>, status |-> "not a directory"]
       ELSE IF ~d /\ ~IsFile(full)
       THEN [fullpath |-> <<>>, rel |-> <<>>, status |-> "not a file"]
       ELSE [fullpath |-> full, rel |-> Relpath(full, b), status |-> "ok"]

MaxComps == 3

PathComps == {<<>>, <<".">>, DotDot, <<"a">>, <<"a", "b">>, <<"s">>, <<"f">>}

Bases == {<<"/", "l", "/", "a">>, <<"/", "l">>}

RequestPaths == {JoinComps(comps) : comps \in SeqsUpTo(PathComps, MaxComps)}

PathInit ==
    /\ base \in Bases
    /\ path \in RequestPaths
    /\ dir \in BOOLEAN
    /\ fullpath = <<>>
    /\ rel = <<>>
    /\ status = "none"
    /\ ppc = "call"
    /\ ChunkIdle
    /\ RenderIdle
    /\ GrepIdle
    /\ SearchIdle
    /\ PrettyIdle

\* get_safe_path, lines 340-354
CallGetSafePath ==
    /\ ppc = "call"
    /\ fullpath' = GetSafePath(base, path, dir).fullpath
    /\ rel' = GetSafePath(base, path, dir).rel
    /\ status' = GetSafePath(base, path, dir).status
    /\ ppc' = "done"
    /\ UNCHANGED <<base, path, dir>>
    /\ UNCHANGED pathOthers

SpecPath == PathInit /\ [][CallGetSafePath]_vars

(***************************************************************************)
(* Claims about get_safe_path.                                             *)
(***************************************************************************)
\* the components of b are the first components of p
WithinRoot(p, b) ==
    /\ Len(NonEmptyComps(b)) <= Len(NonEmptyComps(p))
    /\ SubSeq(NonEmptyComps(p), 1, Len(NonEmptyComps(b))) = NonEmptyComps(b)

\* C2: get_safe_path succeeds only if the normalized joined path is the root
\* or a descendant of it, component by component; a request that resolves
\* outside the root gets the not-found page and no path.
C2_Contained ==
    ppc = "done" =>
        /\ status = "ok" => WithinRoot(fullpath, base)
        /\ ~WithinRoot(Normpath(OsJoin(base, path)), base) =>
              (status # "ok" /\ fullpath = <<>> /\ rel = <<>>)

\* what the startswith test does ensure: the returned path begins with the
\* characters of the root
C2_ContainedByCharacters ==
    (ppc = "done" /\ status = "ok") => StartsWith(fullpath, base)

(***************************************************************************)
(* render_search: get_safe_path, the pattern check, then the walk over the *)
(* entries of walk_safe_path, taking blocks from grep over each file until *)
(* the cap.  grep is a generator: a block is taken when the loop asks for  *)
(* it, and a file yields entries[k].nblocks of them.                       *)
(***************************************************************************)
\* line 209
ResultCap == 30

\* a plausible slip: the cap is tested after one block too many
ReachedCapLate(count) == count > ResultCap

\* line 209
ReachedCap(count) == count >= ResultCap

\* re parameters: one that re.compile refuses, two that match '', one plain
RegexSrcs == {"(", "a*", "", "a"}

\* line 186: re.compile raises on an unbalanced parenthesis
Compiles(src) == src # "("

\* line 187: regex.match('')
MatchesEmpty(src) == src \in {"a*", ""}

\* a plausible slip: only the compile error is caught
RejectedOnCompileOnly(src) == ~Compiles(src)

\* lines 185-189: the try block raises
Rejected(src) == ~Compiles(src) \/ MatchesEmpty(src)

\* line 190: str(e)
ErrorText(src) ==
    IF ~Compiles(src) THEN "missing ), unterminated subpattern at position 0"
    ELSE "search matches empty string"

MaxEntries == 3

BlockCounts == {0, 1, ResultCap - 1, ResultCap + 1}

EntryKinds ==
    {[typ |-> "dir", nblocks |-> 0]} \cup {[typ |-> "file", nblocks |-> c] : c \in BlockCounts}

SearchPaths == {<<>>, <<"s">>, <<"f">>, DotDot}

SearchInit ==
    /\ base \in Bases
    /\ path \in SearchPaths
    /\ dir = TRUE
    /\ fullpath = <<>>
    /\ rel = <<>>
    /\ status = "none"
    /\ ppc = "call"
    /\ regexsrc \in RegexSrcs
    /\ entries \in SeqsUpTo(EntryKinds, MaxEntries)
    /\ ei = 0
    /\ opened = {}
    /\ taken = [k \in DOMAIN entries |-> 0]
    /\ results = 0
    /\ error = ""
    /\ ret = "none"
    /\ spc = "path"
    /\ ChunkIdle
    /\ RenderIdle
    /\ GrepIdle
    /\ PrettyIdle

\* lines 175-177: get_safe_path printed the error page
SearchBadPath ==
    /\ spc = "path"
    /\ GetSafePath(base, path, dir).status # "ok"
    /\ fullpath' = GetSafePath(base, path, dir).fullpath
    /\ rel' = GetSafePath(base, path, dir).rel
    /\ status' = GetSafePath(base, path, dir).status
    /\ ppc' = "done"
    /\ ret' = "False"
    /\ spc' = "done"
    /\ UNCHANGED <<base, path, dir, regexsrc, entries, ei, opened, taken, results, error>>
    /\ UNCHANGED searchOthers

\* lines 175-183
SearchPathOk ==
    /\ spc = "path"
    /\ GetSafePath(base, path, dir).status = "ok"
    /\ fullpath' = GetSafePath(base, path, dir).fullpath
    /\ rel' = GetSafePath(base, path, dir).rel
    /\ status' = GetSafePath(base, path, dir).status
    /\ ppc' = "done"
    /\ spc' = "regex"
    /\ UNCHANGED <<base, path, dir, regexsrc, entries, ei, opened, taken, results, error, ret>>
    /\ UNCHANGED searchOthers

\* lines 185-191: the pattern does not compile or matches ''
SearchRejectPattern ==
    /\ spc = "regex"
    /\ Rejected(regexsrc)
    /\ error' = ErrorText(regexsrc)
    /\ ret' = "True"
    /\ spc' = "done"
    /\ UNCHANGED <<regexsrc, entries, ei, opened, taken, results>>
    /\ UNCHANGED <<pathVars, searchOthers>>

\* lines 185-196: the pattern is accepted and the walk begins
SearchStartWalk ==
    /\ spc = "regex"
    /\ ~Rejected(regexsrc)
    /\ results' = 0
    /\ ei' = 1
    /\ spc' = "walk"
    /\ UNCHANGED <<regexsrc, entries, opened, taken, error, ret>>
    /\ UNCHANGED <<pathVars, searchOthers>>

\* lines 196-198: a directory entry is passed over
WalkDir ==
    /\ spc = "walk"
    /\ ei <= Len(entries)
    /\ entries[ei].typ = "dir"
    /\ ei' = ei + 1
    /\ UNCHANGED <<regexsrc, entries, opened, taken, results, error, ret, spc>>
    /\ UNCHANGED <<pathVars, searchOthers>>

\* lines 199-204: a file is opened and grep over it begins
OpenFile ==
    /\ spc = "walk"
    /\ ei <= Len(entries)
    /\ entries[ei].typ = "file"
    /\ opened' = opened \cup {ei}
    /\ spc' = "file"
    /\ UNCHANGED <<regexsrc, entries, ei, taken, results, error, ret>>
    /\ UNCHANGED <<pathVars, searchOthers>>

\* lines 204-210: grep yields a block; it is rendered and counted
TakeBlock ==
    /\ spc = "file"
    /\ taken[ei] < entries[ei].nblocks
    /\ taken' = [taken EXCEPT ![ei] = @ + 1]
    /\ results' = results + 1
    /\ IF ReachedCap(results')
       THEN /\ ret' = "True"
            /\ spc' = "done"
       ELSE /\ ret' = ret
            /\ spc' = spc
    /\ UNCHANGED <<regexsrc, entries, ei, opened, error>>
    /\ UNCHANGED <<pathVars, searchOthers>>

\* line 204: grep over the file is exhausted
FileExhausted ==
    /\ spc = "file"
    /\ taken[ei] = entries[ei].nblocks
    /\ ei' = ei + 1
    /\ spc' = "walk"
    /\ UNCHANGED <<regexsrc, entries, opened, taken, results, error, ret>>
    /\ UNCHANGED <<pathVars, searchOthers>>

\* line 212: the walk is over
WalkEnd ==
    /\ spc = "walk"
    /\ ei > Len(entries)
    /\ ret' = "True"
    /\ spc' = "done"
    /\ UNCHANGED <<regexsrc, entries, ei, opened, taken, results, error>>
    /\ UNCHANGED <<pathVars, searchOthers>>

SearchNext ==
    \/ SearchBadPath
    \/ SearchPathOk
    \/ SearchRejectPattern
    \/ SearchStartWalk
    \/ WalkDir
    \/ OpenFile
    \/ TakeBlock
    \/ FileExhausted
    \/ WalkEnd

SpecSearch == SearchInit /\ [][SearchNext]_vars

(***************************************************************************)
(* Claims about render_search.                                             *)
(***************************************************************************)
RECURSIVE SumUpTo(_, _)
SumUpTo(counts, k) == IF k = 0 THEN 0 ELSE counts[k] + SumUpTo(counts, k - 1)

\* the blocks the files before entry k would produce
BlocksBefore(k) == SumUpTo([j \in DOMAIN entries |-> entries[j].nblocks], k - 1)

TotalBlocks == BlocksBefore(Len(entries) + 1)

Files == {k \in DOMAIN entries : entries[k].typ = "file"}

\* C5: the blocks emitted over all files never exceed 30; a tree that would
\* produce at least 30 blocks ends with exactly 30; and once the 30th is
\* emitted no further block is taken from the current file and no further file
\* is opened: what is opened and taken is the least that reaches the cap.
C5_ResultCap ==
    /\ results <= ResultCap
    /\ results = SumUpTo(taken, Len(taken))
    /\ results >= ResultCap => spc = "done"
    /\ (spc = "done" /\ status = "ok" /\ ~Rejected(regexsrc)) =>
          /\ results = Min2(TotalBlocks, ResultCap)
          /\ opened = {k \in Files : BlocksBefore(k) < ResultCap}
          /\ \A k \in DOMAIN entries :
                taken[k] = Max2(0, Min2(entries[k].nblocks, ResultCap - BlocksBefore(k)))

\* the cap is reached in the middle of a file, with a file left unopened
C5_Witness ==
    /\ spc = "done"
    /\ results = ResultCap
    /\ \E k \in Files : k \in opened /\ 0 < taken[k] /\ taken[k] < entries[k].nblocks
    /\ \E k \in Files : k \notin opened /\ entries[k].nblocks > 0

\* C6: a pattern that does not compile or that matches the empty string is
\* rejected before any file is opened: the error message is stored, no block
\* is emitted, and the request returns True.
C6_PatternRejected ==
    /\ (spc = "done" /\ status = "ok" /\ (~Compiles(regexsrc) \/ MatchesEmpty(regexsrc))) =>
          /\ error = ErrorText(regexsrc)
          /\ error # ""
          /\ results = 0
          /\ opened = {}
          /\ \A k \in DOMAIN taken : taken[k] = 0
          /\ ret = "True"
    /\ (~Compiles(regexsrc) \/ MatchesEmpty(regexsrc)) => spc \notin {"walk", "file"}

\* a pattern that matches the empty string is rejected over a tree whose
\* files would have produced blocks
C6_Witness ==
    /\ spc = "done"
    /\ status = "ok"
    /\ regexsrc = "a*"
    /\ error = "search matches empty string"
    /\ ret = "True"
    /\ TotalBlocks > 0
    /\ opened = {}

(***************************************************************************)
(* pretty_number.  n / base is kept exact, as the pair n, base^k.          *)
(***************************************************************************)
\* line 312
Prefixes == <<"", "k", "M", "G", "T", "P", "E", "Z", "Y">>

\* line 317
Threshold == 9999

\* a plausible slip: the binary base is never used
BaseOfDecimalOnly(lg) == 1000

\* lines 313-315
BaseOf(lg) == IF lg THEN 1024 ELSE 1000

\* lines 316-319: the loop over the prefixes; the value is num / den.  The
\* result is the divisor and the index of the prefix the loop ends with.
RECURSIVE ScaleFrom(_, _, _, _)
ScaleFrom(num, den, b, k) ==
    IF (num \div den) < Threshold THEN [den |-> den, k |-> k]
    ELSE IF k = Len(Prefixes) THEN [den |-> den * b, k |-> k]
    ELSE ScaleFrom(num, den * b, b, k + 1)

\* round() of num / den: to the nearest integer, a tie to the even one
Round(num, den) ==
    LET q == num \div den
        r == num % den
    IN IF 2 * r < den THEN q
       ELSE IF 2 * r > den THEN q + 1
       ELSE IF q % 2 = 0 THEN q ELSE q + 1

Digits == <<"0", "1", "2", "3", "4", "5", "6", "7", "8", "9">>

\* '{0}'.format(i) for i >= 0
RECURSIVE Decimal(_)
Decimal(i) == IF i < 10 THEN Digits[i + 1] ELSE Decimal(i \div 10) \o Digits[(i % 10) + 1]

\* lines 311-324
PrettyNumber(num, u, lg) ==
    LET sc == ScaleFrom(num, 1, BaseOf(lg), 1)
        prefix == Prefixes[sc.k]
        digits == Decimal(Round(num, sc.den))
        suffix == prefix \o (IF lg /\ prefix # "" THEN "i" ELSE "") \o u
    IN IF suffix # "" THEN digits \o " " \o suffix ELSE digits

MaxSmall == 60

PrettyInputs ==
    (0..MaxSmall) \cup
        {500, 9998, 9999, 10000, 10499, 10500, 11500, 10752, 1024 * 1024,
         9999 * 1024 - 1, 9999 * 1024, 12 * 1024 * 1024}

PrettyInit ==
    /\ n \in PrettyInputs
    /\ unit \in {"", "B"}
    /\ log2 \in BOOLEAN
    /\ s = ""
    /\ npc = "call"
    /\ ChunkIdle
    /\ RenderIdle
    /\ GrepIdle
    /\ PathIdle
    /\ SearchIdle

\* pretty_number, lines 311-324
CallPrettyNumber ==
    /\ npc = "call"
    /\ s' = PrettyNumber(n, unit, log2)
    /\ npc' = "done"
    /\ UNCHANGED <<n, unit, log2>>
    /\ UNCHANGED prettyOthers

SpecPretty == PrettyInit /\ [][CallPrettyNumber]_vars

(***************************************************************************)
(* Claims about pretty_number.                                             *)
(***************************************************************************)
RECURSIVE Power(_, _)
Power(b, k) == IF k = 0 THEN 1 ELSE b * Power(b, k - 1)

\* the string is v, a blank and the suffix of prefix k, for the first prefix
\* at which n scaled is below 9999 and the integer v nearest to n scaled.  The
\* inputs are below 9999 * 1000^2, so k is at most 2.
ScaledAndRounded ==
    \E k \in 0..2 :
        LET b == IF log2 THEN 1024 ELSE 1000
            den == Power(b, k)
            suffix == Prefixes[k + 1] \o (IF log2 /\ k > 0 THEN "i" ELSE "") \o unit
        IN /\ (n \div den) < Threshold
           /\ k > 0 => (n \div (den \div b)) >= Threshold
           /\ \E v \in {n \div den, (n \div den) + 1} :
                 /\ 2 * (v * den - n) <= den
                 /\ 2 * (n - v * den) <= den
                 /\ s = Decimal(v) \o (IF suffix = "" THEN "" ELSE " " \o suffix)

\* C9 as stated: the count is scaled to the prefix at which it is below 9999
\* and rounded to the nearest integer, so that 500 B is "500 B", 10000 B is
\* "10 kB" and 1024*1024 in binary prefixes is "1 Mi".
C9_AsStated ==
    npc = "done" =>
        /\ ScaledAndRounded
        /\ (n = 500 /\ unit = "B" /\ ~log2) => s = "500 B"
        /\ (n = 10000 /\ unit = "B" /\ ~log2) => s = "10 kB"
        /\ (n = 1024 * 1024 /\ unit = "" /\ log2) => s = "1 Mi"

\* C9 amended: the same, but 1024*1024 in binary prefixes is "1024 ki", 1024
\* being below 9999.
C9_Scaled ==
    npc = "done" =>
        /\ ScaledAndRounded
        /\ (n = 500 /\ unit = "B" /\ ~log2) => s = "500 B"
        /\ (n = 10000 /\ unit = "B" /\ ~log2) => s = "10 kB"
        /\ (n = 1024 * 1024 /\ unit = "" /\ log2) => s = "1024 ki"

\* 1024*1024 has been formatted with binary prefixes and no unit
C9_Witness ==
    /\ npc = "done"
    /\ n = 1024 * 1024
    /\ unit = ""
    /\ log2
    /\ s = "1024 ki"

====
